---- MODULE Spec2Model ----
(***************************************************************************)
(* Model of the filterx Scope / Variable table (lib/filterx/filterx-scope) *)
(* and of the lazy message field reference (lib/filterx/expr-message-ref)  *)
(* of syslog-ng.                                                           *)
(*                                                                         *)
(* Scopes and values live in two heaps indexed by small integers, so that  *)
(* aliasing between a Scope and its clone is something the model can       *)
(* express: a Variable holds the id of a value object (0 is NULL), a       *)
(* holder's scope pointer holds the id of a Scope (0 is NULL).             *)
(***************************************************************************)
EXTENDS Integers, Sequences, FiniteSets, TLC

\* ------------------------------------------------------------------ bounds
MaxHandle == 2      \* NVHandle values 1..MaxHandle are used by the lazy references
NSlots == 2         \* holders of a FilterXScope pointer (eval contexts, checkpoints)
MaxScopes == 3      \* FilterXScope instances alive at the same time
MaxObj == 3         \* FilterXObject instances alive at the same time
MaxLen == 2         \* length of a mutable list value
MaxWeak == 1        \* entries of a Scope's weak_refs array
MaxSteps == 6       \* operations in one run of Spec
MaxRegHandle == 3   \* NVHandle values 1..MaxRegHandle are registered in SpecReg
MaxRegSteps == 5    \* operations in one run of SpecReg
MaxLazySteps == 5   \* operations in one run of SpecLazy
NThreads == 3       \* threads using the stats registry in SpecStats
MaxCounters == 2    \* StatsCounterItem slots of the registry
MaxCount == 1       \* the largest value a counter starts with

Handles == 1..MaxHandle
Slots == 1..NSlots
ScopeIds == 1..MaxScopes
ObjIds == 1..MaxObj
RegHandles == 1..MaxRegHandle
Threads == 1..NThreads
CounterIds == 1..MaxCounters

\* ------------------------------------------------------------------ values
\* A FilterXObject: type is its FilterXType, val its content, t the
\* LogMessageValueType of a borrowed message value.
NoObj == [type |-> "free", val |-> <<>>, t |-> "-", modified_in_place |-> FALSE, ref_cnt |-> 0]

\* The Record's answer for a handle that is not set.
NoValue == [value |-> <<>>, type |-> "unset"]

\* filterx_message_value_new_borrowed(value, value_len, t)
filterx_message_value_new_borrowed(value, t) ==
    [type |-> "message_value", val |-> value, t |-> t, modified_in_place |-> FALSE, ref_cnt |-> 1]

\* The values an expression hands to assign / register / _update_repr: an
\* immutable integer and a mutable list, each with the creator's reference.
NewInteger == [type |-> "integer", val |-> <<42>>, t |-> "-", modified_in_place |-> FALSE, ref_cnt |-> 1]
NewList == [type |-> "list", val |-> <<1>>, t |-> "-", modified_in_place |-> FALSE, ref_cnt |-> 1]
NewValues == {NewInteger, NewList}

\* Only the list variant is mutable; the others are readonly.
IsReadonly(obj) == obj.type # "list"

\* Marshalling writes ASCII: '0' is 48, ',' is 44, '[' is 91, ']' is 93.
RECURSIVE Decimal(_)
Decimal(n) == IF n < 10 THEN <<48 + n>> ELSE Decimal(n \div 10) \o <<48 + (n % 10)>>

RECURSIVE Joined(_)
Joined(s) ==
    IF Len(s) = 0 THEN <<>>
    ELSE IF Len(s) = 1 THEN Decimal(s[1])
    ELSE Decimal(s[1]) \o <<44>> \o Joined(Tail(s))

\* filterx_object_marshal(value, buffer, &t): the bytes and the type tag.
filterx_object_marshal(obj) ==
    CASE obj.type = "message_value" -> [value |-> obj.val, type |-> obj.t]
      [] obj.type = "integer" -> [value |-> Decimal(obj.val[1]), type |-> "integer"]
      [] OTHER -> [value |-> <<91>> \o Joined(obj.val) \o <<93>>, type |-> "list"]

\* filterx_object_ref / filterx_object_unref on the heap O; NULL is accepted.
filterx_object_ref(O, o) ==
    IF o = 0 THEN O ELSE [O EXCEPT ![o].ref_cnt = @ + 1]

filterx_object_unref(O, o) ==
    IF o = 0 THEN O
    ELSE IF O[o].ref_cnt = 1 THEN [O EXCEPT ![o] = NoObj]
    ELSE [O EXCEPT ![o].ref_cnt = @ - 1]

FreeObjIds(O) == {o \in ObjIds : O[o].ref_cnt = 0}
CanAlloc(O) == FreeObjIds(O) # {}
AllocId(O) == CHOOSE o \in FreeObjIds(O) : \A p \in FreeObjIds(O) : o <= p

\* filterx_object_clone(o): a readonly object is shared (one more reference),
\* a mutable one is copied into a new, unmodified object.
filterx_object_clone(O, o) ==
    IF o = 0 THEN [objs |-> O, obj |-> 0]
    ELSE IF IsReadonly(O[o]) THEN [objs |-> filterx_object_ref(O, o), obj |-> o]
    ELSE LET n == AllocId(O)
         IN [objs |-> [O EXCEPT ![n] = [O[o] EXCEPT !.modified_in_place = FALSE, !.ref_cnt = 1]],
             obj |-> n]

\* ------------------------------------------------------------------ state
VARIABLES
    scopes,     \* ScopeIds -> FilterXScope (ref_cnt = 0: not allocated)
    refs,       \* Slots -> the FilterXScope pointer a holder owns (0: none)
    objs,       \* ObjIds -> FilterXObject (ref_cnt = 0: not allocated)
    msg,        \* the LogMessage: Handles -> [value, type]
    held,       \* the reference the evaluating expression holds: [obj, from], the
                \* object (0: none) and the scope it was read from
    last,       \* the last operation: its name, holder, handle and results
    intent,     \* ScopeIds -> Handles -> what the last write/clear of the handle asked for
    pristine,   \* ScopeIds -> created empty and only read / is_set applied since
    origin,     \* ScopeIds -> the live scope it was cloned from (0: none)
    steps,      \* operations left in this run
    pc,         \* thread -> where it is in the function it runs (concurrent runs)
    local,      \* thread -> the local variables of that function
    race,       \* the shared scope of a make_writable race: what it held, how often it was freed
    stats       \* the stats registry: its lock (0: free, else the owner) and its counters

vars == <<scopes, refs, objs, msg, held, last, intent, pristine, origin, steps,
          pc, local, race, stats>>

NoScope == [ref_cnt |-> 0, variables |-> <<>>, weak_refs |-> <<>>, write_protected |-> FALSE]


\* ------------------------------------------------------------------ Variable
\* struct _FilterXVariable
Variable(handle, floating, assigned, value) ==
    [handle |-> handle, floating |-> floating, assigned |-> assigned, value |-> value]

\* A set_value that forgets the assigned flag.
SetValueKeepsAssigned(sc, O, i, new_value) ==
    [scope |-> [sc EXCEPT !.variables[i].value = new_value],
     objs |-> filterx_object_ref(filterx_object_unref(O, sc.variables[i].value), new_value)]

\* filterx_variable_set_value(v, new_value), v being slot i (from 1) of scope sc:
\* the old value is released, the new one referenced, assigned set.
filterx_variable_set_value(sc, O, i, new_value) ==
    [scope |-> [sc EXCEPT !.variables[i].value = new_value,
                          !.variables[i].assigned = TRUE],
     objs |-> filterx_object_ref(filterx_object_unref(O, sc.variables[i].value), new_value)]

\* An unset_value that takes the Variable out of the table.
UnsetRemoves(sc, O, i) ==
    [scope |-> [sc EXCEPT !.variables = SubSeq(@, 1, i - 1) \o SubSeq(@, i + 1, Len(@))],
     objs |-> filterx_object_unref(O, sc.variables[i].value)]

\* filterx_variable_unset_value(v)
filterx_variable_unset_value(sc, O, i) == filterx_variable_set_value(sc, O, i, 0)

\* filterx_variable_is_set(v)
filterx_variable_is_set(v) == v.value # 0

\* ------------------------------------------------------------------ Scope
\* A binary search with the comparison inverted.
RECURSIVE BinarySearchInverted(_, _, _, _)
BinarySearchInverted(variables, handle, l, h) ==
    IF l <= h
    THEN LET m == (l + h) \div 2
             mv == variables[m + 1].handle
         IN IF mv = handle THEN [found |-> TRUE, index |-> m]
            ELSE IF mv < handle THEN BinarySearchInverted(variables, handle, l, m - 1)
            ELSE BinarySearchInverted(variables, handle, m + 1, h)
    ELSE [found |-> FALSE, index |-> l]

\* The open-coded binary search of _lookup_variable; l, h, m are the C
\* indexes (from 0). Returns whether the handle was found and the index of
\* the match, or of the slot where the handle belongs.
RECURSIVE BinarySearch(_, _, _, _)
BinarySearch(variables, handle, l, h) ==
    IF l <= h
    THEN LET m == (l + h) \div 2
             mv == variables[m + 1].handle
         IN IF mv = handle THEN [found |-> TRUE, index |-> m]
            ELSE IF mv > handle THEN BinarySearch(variables, handle, l, m - 1)
            ELSE BinarySearch(variables, handle, m + 1, h)
    ELSE [found |-> FALSE, index |-> l]

_lookup_variable(sc, handle) ==
    BinarySearch(sc.variables, handle, 0, Len(sc.variables) - 1)

\* filterx_scope_lookup_variable: the slot (from 1) of the Variable, 0 for NULL.
filterx_scope_lookup_variable(sc, handle) ==
    LET lk == _lookup_variable(sc, handle)
    IN IF lk.found THEN lk.index + 1 ELSE 0

\* g_array_insert_val(array, index, v), index from 0
g_array_insert_val(array, index, v) ==
    SubSeq(array, 1, index) \o <<v>> \o SubSeq(array, index + 1, Len(array))

\* A register that overwrites the Variable it finds.
RegisterOverwrites(sc, O, handle, floating, initial_value) ==
    LET lk == _lookup_variable(sc, handle)
    IN IF lk.found
       THEN [scope |-> [sc EXCEPT !.variables[lk.index + 1] =
                            Variable(handle, floating, FALSE, initial_value)],
             objs |-> filterx_object_ref(filterx_object_unref(O, sc.variables[lk.index + 1].value),
                                         initial_value),
             slot |-> lk.index + 1]
       ELSE [scope |-> [sc EXCEPT !.variables =
                            g_array_insert_val(@, lk.index,
                                Variable(handle, floating, FALSE, initial_value))],
             objs |-> filterx_object_ref(O, initial_value),
             slot |-> lk.index + 1]

\* A register that marks the new Variable assigned.
RegisterAssigned(sc, O, handle, floating, initial_value) ==
    LET lk == _lookup_variable(sc, handle)
    IN IF lk.found
       THEN [scope |-> sc, objs |-> O, slot |-> lk.index + 1]
       ELSE [scope |-> [sc EXCEPT !.variables =
                            g_array_insert_val(@, lk.index,
                                Variable(handle, floating, TRUE, initial_value))],
             objs |-> filterx_object_ref(O, initial_value),
             slot |-> lk.index + 1]

\* filterx_scope_register_variable(self, handle, floating, initial_value):
\* the scope, the heap and the slot (from 1) of the Variable returned.
filterx_scope_register_variable(sc, O, handle, floating, initial_value) ==
    LET lk == _lookup_variable(sc, handle)
    IN IF lk.found
       THEN [scope |-> sc, objs |-> O, slot |-> lk.index + 1]
       ELSE [scope |-> [sc EXCEPT !.variables =
                            g_array_insert_val(@, lk.index,
                                Variable(handle, floating, FALSE, initial_value))],
             objs |-> filterx_object_ref(O, initial_value),
             slot |-> lk.index + 1]

\* log_msg_set_value_with_type / log_msg_unset_value on the Record M
log_msg_set_value_with_type(M, handle, marshalled) == [M EXCEPT ![handle] = marshalled]
log_msg_unset_value(M, handle) == [M EXCEPT ![handle] = NoValue]
log_msg_is_value_set(M, handle) == M[handle] # NoValue

\* A sync that does not skip floating Variables.
SyncSkipsNothing(v) == FALSE

\* A sync that ignores the modified_in_place flag.
SyncWritesAssignedOnly(v, O) == v.assigned

\* The three tests of the loop of filterx_scope_sync_to_message: a floating
\* Variable is skipped, an absent value is unset in the Record, a value that
\* was assigned or modified in place is written.
SyncSkips(v) == v.floating

SyncUnsets(v) == v.value = 0

SyncWrites(v, O) == v.assigned \/ O[v.value].modified_in_place

\* A sync that leaves the assigned flags as they are.
RECURSIVE SyncFromKeepsAssigned(_, _, _, _, _, _)
SyncFromKeepsAssigned(sc, O, M, i, set, unset) ==
    IF i > Len(sc.variables)
    THEN [scope |-> sc, objs |-> O, msg |-> M, set |-> set, unset |-> unset]
    ELSE LET v == sc.variables[i]
         IN IF SyncSkips(v)
            THEN SyncFromKeepsAssigned(sc, O, M, i + 1, set, unset)
            ELSE IF SyncUnsets(v)
            THEN SyncFromKeepsAssigned(sc, O, log_msg_unset_value(M, v.handle),
                                       i + 1, set, unset \cup {v.handle})
            ELSE IF SyncWrites(v, O)
            THEN SyncFromKeepsAssigned(sc, [O EXCEPT ![v.value].modified_in_place = FALSE],
                          log_msg_set_value_with_type(M, v.handle, filterx_object_marshal(O[v.value])),
                          i + 1, set \cup {v.handle}, unset)
            ELSE SyncFromKeepsAssigned(sc, O, M, i + 1, set, unset)

\* The loop of filterx_scope_sync_to_message from Variable i on. set and
\* unset collect the handles a Record set / unset call was issued for.
RECURSIVE SyncFrom(_, _, _, _, _, _)
SyncFrom(sc, O, M, i, set, unset) ==
    IF i > Len(sc.variables)
    THEN [scope |-> sc, objs |-> O, msg |-> M, set |-> set, unset |-> unset]
    ELSE LET v == sc.variables[i]
         IN IF SyncSkips(v)
            THEN SyncFrom(sc, O, M, i + 1, set, unset)
            ELSE IF SyncUnsets(v)
            THEN SyncFrom([sc EXCEPT !.variables[i].assigned = FALSE], O,
                          log_msg_unset_value(M, v.handle),
                          i + 1, set, unset \cup {v.handle})
            ELSE IF SyncWrites(v, O)
            THEN SyncFrom([sc EXCEPT !.variables[i].assigned = FALSE],
                          [O EXCEPT ![v.value].modified_in_place = FALSE],
                          log_msg_set_value_with_type(M, v.handle, filterx_object_marshal(O[v.value])),
                          i + 1, set \cup {v.handle}, unset)
            ELSE SyncFrom(sc, O, M, i + 1, set, unset)

filterx_scope_sync_to_message(sc, O, M) == SyncFrom(sc, O, M, 1, {}, {})

\* filterx_scope_new()
filterx_scope_new == [ref_cnt |-> 1, variables |-> <<>>, weak_refs |-> <<>>, write_protected |-> FALSE]

\* A clone that copies the Variable structs and shares their values.
RECURSIVE CloneFromSharing(_, _, _, _)
CloneFromSharing(self, other, O, i) ==
    IF i > Len(other.variables)
    THEN [scope |-> self, objs |-> O]
    ELSE LET v == other.variables[i]
         IN CloneFromSharing([self EXCEPT !.variables = Append(@, v)],
                             other, filterx_object_ref(O, v.value), i + 1)

\* A clone that resets the assigned flag of every Variable it copies.
RECURSIVE CloneFromUnassigned(_, _, _, _)
CloneFromUnassigned(self, other, O, i) ==
    IF i > Len(other.variables)
    THEN [scope |-> self, objs |-> O]
    ELSE LET v == other.variables[i]
             c == filterx_object_clone(O, v.value)
         IN CloneFromUnassigned([self EXCEPT !.variables =
                                    Append(@, [v EXCEPT !.value = c.obj, !.assigned = FALSE])],
                                other, c.objs, i + 1)

\* The loop of filterx_scope_clone from Variable i of other on: the struct
\* is copied and its value replaced by the clone of the value.
RECURSIVE CloneFrom(_, _, _, _)
CloneFrom(self, other, O, i) ==
    IF i > Len(other.variables)
    THEN [scope |-> self, objs |-> O]
    ELSE LET v == other.variables[i]
             c == filterx_object_clone(O, v.value)
         IN CloneFrom([self EXCEPT !.variables = Append(@, [v EXCEPT !.value = c.obj])],
                      other, c.objs, i + 1)

\* filterx_scope_clone(other): weak references are not cloned.
filterx_scope_clone(other, O) == CloneFrom(filterx_scope_new, other, O, 1)

\* The mutable values filterx_scope_clone has to allocate a copy of.
MutableValues(sc, O) ==
    {i \in 1..Len(sc.variables) : sc.variables[i].value # 0 /\ ~IsReadonly(O[sc.variables[i].value])}

\* Releasing every element of a sequence of object pointers.
RECURSIVE UnrefAll(_, _)
UnrefAll(O, ptrs) ==
    IF Len(ptrs) = 0 THEN O ELSE UnrefAll(filterx_object_unref(O, Head(ptrs)), Tail(ptrs))

\* A _free that releases the weak references and leaks the Variables' values.
FreeLeaksVariables(sc, O) == UnrefAll(O, sc.weak_refs)

\* _free(self): g_array_free runs _variable_free on every Variable,
\* g_ptr_array_free runs filterx_object_unref on every weak_refs entry.
_free(sc, O) ==
    UnrefAll(UnrefAll(O, [i \in 1..Len(sc.variables) |-> sc.variables[i].value]), sc.weak_refs)

\* An unref that frees without testing the counter.
UnrefAlwaysFrees(SS, O, s) ==
    IF s = 0 THEN [scopes |-> SS, objs |-> O]
    ELSE [scopes |-> [SS EXCEPT ![s] = NoScope], objs |-> _free(SS[s], O)]

\* filterx_scope_unref(self) on the scope heap SS: the last reference frees.
filterx_scope_unref(SS, O, s) ==
    IF s = 0 THEN [scopes |-> SS, objs |-> O]
    ELSE IF SS[s].ref_cnt = 1
    THEN [scopes |-> [SS EXCEPT ![s] = NoScope], objs |-> _free(SS[s], O)]
    ELSE [scopes |-> [SS EXCEPT ![s].ref_cnt = @ - 1], objs |-> O]

FreeScopeIds(SS) == {s \in ScopeIds : SS[s].ref_cnt = 0}
AllocScopeId(SS) == CHOOSE s \in FreeScopeIds(SS) : \A p \in FreeScopeIds(SS) : s <= p


\* ------------------------------------------------------------------ lazy field reference
\* A pull that registers a Variable even when the Record has no value.
PullAlwaysRegisters(sc, O, M, handle) ==
    IF ~log_msg_is_value_set(M, handle)
    THEN LET r == filterx_scope_register_variable(sc, O, handle, FALSE, 0)
         IN [scope |-> r.scope, objs |-> r.objs, obj |-> 0]
    ELSE LET msg_ref == AllocId(O)
             O1 == [O EXCEPT ![msg_ref] =
                        filterx_message_value_new_borrowed(M[handle].value, M[handle].type)]
             r == filterx_scope_register_variable(sc, O1, handle, FALSE, msg_ref)
         IN [scope |-> r.scope, objs |-> r.objs, obj |-> msg_ref]

\* _pull_variable_from_message(self, context, msg): the scope, the heap and
\* the object returned (0 for NULL).
_pull_variable_from_message(sc, O, M, handle) ==
    IF ~log_msg_is_value_set(M, handle)
    THEN [scope |-> sc, objs |-> O, obj |-> 0]
    ELSE LET msg_ref == AllocId(O)
             O1 == [O EXCEPT ![msg_ref] =
                        filterx_message_value_new_borrowed(M[handle].value, M[handle].type)]
             r == filterx_scope_register_variable(sc, O1, handle, FALSE, msg_ref)
         IN [scope |-> r.scope, objs |-> r.objs, obj |-> msg_ref]

\* A whiteout that registers a floating Variable.
WhiteoutFloating(sc, O, handle) ==
    filterx_scope_register_variable(sc, O, handle, TRUE, 0)

\* _whiteout_variable(self, context)
_whiteout_variable(sc, O, handle) ==
    filterx_scope_register_variable(sc, O, handle, FALSE, 0)

\* The body of _eval: filterx_variable_get_value of the Variable found, or the pull.
EvalBody(sc, O, M, handle) ==
    LET variable == filterx_scope_lookup_variable(sc, handle)
    IN IF variable # 0
       THEN [scope |-> sc,
             objs |-> filterx_object_ref(O, sc.variables[variable].value),
             obj |-> sc.variables[variable].value]
       ELSE _pull_variable_from_message(sc, O, M, handle)

\* The body of _assign, new_value being an object the caller holds.
AssignBody(sc, O, handle, new_value) ==
    LET variable == filterx_scope_lookup_variable(sc, handle)
        r == IF variable = 0
             THEN filterx_scope_register_variable(sc, O, handle, FALSE, 0)
             ELSE [scope |-> sc, objs |-> O, slot |-> variable]
        cl == filterx_object_clone(r.objs, new_value)
        sv == filterx_variable_set_value(r.scope, cl.objs, r.slot, cl.obj)
    IN [scope |-> sv.scope, objs |-> filterx_object_unref(sv.objs, cl.obj)]

\* An _isset that asks the Record whatever the scope holds.
IssetAsksRecord(sc, M, handle) == log_msg_is_value_set(M, handle)

\* The body of _isset.
IssetBody(sc, M, handle) ==
    LET variable == filterx_scope_lookup_variable(sc, handle)
    IN IF variable # 0
       THEN filterx_variable_is_set(sc.variables[variable])
       ELSE log_msg_is_value_set(M, handle)

\* An _unset that registers no whiteout.
UnsetWithoutWhiteout(sc, O, M, handle) ==
    LET variable == filterx_scope_lookup_variable(sc, handle)
    IN IF variable # 0
       THEN filterx_variable_unset_value(sc, O, variable)
       ELSE [scope |-> sc, objs |-> O]

\* The body of _unset.
UnsetBody(sc, O, M, handle) ==
    LET variable == filterx_scope_lookup_variable(sc, handle)
    IN IF variable # 0
       THEN filterx_variable_unset_value(sc, O, variable)
       ELSE IF log_msg_is_value_set(M, handle)
       THEN LET r == _whiteout_variable(sc, O, handle)
            IN [scope |-> r.scope, objs |-> r.objs]
       ELSE [scope |-> sc, objs |-> O]

\* ------------------------------------------------------------------ bookkeeping
\* intent[s][h] remembers the last write or clear of handle h through the
\* lazy reference on scope s, for as long as nothing else has touched the
\* Variable (_update_repr, an in-place mutation of its value) or the Record
\* field (the sync of another scope): "written" with the marshalled value
\* given to the write, "cleared", or "none".
NoIntent == [kind |-> "none", value |-> NoValue]
Written(marshalled) == [kind |-> "written", value |-> marshalled]
Cleared == [kind |-> "cleared", value |-> NoValue]

\* The record of the last operation: the scope it was applied to, the handle,
\* whether the scope had a Variable for the handle before it, what it
\* returned (ret: a table slot or an object, isset: the answer of is_set) and
\* the handles sync issued a Record set / unset call for.
Op(op, h, s) ==
    [op |-> op, h |-> h, scope |-> s, found |-> FALSE, ret |-> 0, isset |-> FALSE,
     set |-> {}, unset |-> {}]

Found(sc, h) == _lookup_variable(sc, h).found

\* The scopes one of whose Variables holds object o.
ScopesHolding(SS, o) ==
    {s \in ScopeIds : \E i \in 1..Len(SS[s].variables) : SS[s].variables[i].value = o}

\* The handles of scope sc whose Variable holds object o.
HandlesHolding(sc, o) ==
    {sc.variables[i].handle : i \in {j \in 1..Len(sc.variables) : sc.variables[j].value = o}}

\* A scope that is freed forgets its bookkeeping.
Forget(f, SS, none) == [s \in ScopeIds |-> IF SS[s].ref_cnt = 0 THEN none ELSE f[s]]

\* One operation of a single-threaded run; the threads of the concurrent
\* runs and the stats registry are not involved.
Tick == steps > 0 /\ steps' = steps - 1 /\ UNCHANGED <<pc, local, race, stats>>


NoHeld == [obj |-> 0, from |-> 0]
NoIntents == [h \in Handles |-> NoIntent]

\* The Record fields of the incoming message: unset, or a string.
Hello == [value |-> <<104, 105>>, type |-> "string"]

\* Exactly one field of the incoming message is set.
InitialMessages == {[h \in Handles |-> IF h = k THEN Hello ELSE NoValue] : k \in Handles}

\* The values the callers create: initial values of register, the new
\* representation of _update_repr.
InitialValues == {NoObj, NewInteger}
NewReprs == {NewList}

\* A thread that runs nothing, no race, an unused registry.
NoLocal == [new |-> 0, i |-> 0, seen |-> <<>>]
NoRace == [content |-> <<>>, freed |-> 0]
NoStats == [lock |-> 0, counters |-> <<>>]

\* One holder with a new, empty scope; n operations to go.
InitWith(n) ==
    /\ scopes = [s \in ScopeIds |-> IF s = 1 THEN filterx_scope_new ELSE NoScope]
    /\ refs = [c \in Slots |-> IF c = 1 THEN 1 ELSE 0]
    /\ objs = [o \in ObjIds |-> NoObj]
    /\ msg \in InitialMessages
    /\ held = NoHeld
    /\ last = Op("init", 0, 0)
    /\ intent = [s \in ScopeIds |-> NoIntents]
    /\ pristine = [s \in ScopeIds |-> s = 1]
    /\ origin = [s \in ScopeIds |-> 0]
    /\ steps = n
    /\ pc = [c \in Slots |-> "idle"]
    /\ local = [c \in Slots |-> NoLocal]
    /\ race = NoRace
    /\ stats = NoStats

Init == InitWith(MaxSteps)

\* ------------------------------------------------------------------ lazy reference actions
\* read: _eval on the holder's current scope; the caller receives the reference.
_eval(c, h) ==
    /\ Tick
    /\ refs[c] # 0
    /\ held.obj = 0
    /\ LET s == refs[c]
           pulls == filterx_scope_lookup_variable(scopes[s], h) = 0 /\ log_msg_is_value_set(msg, h)
       IN /\ pulls => CanAlloc(objs)
          /\ LET r == EvalBody(scopes[s], objs, msg, h)
             IN /\ scopes' = [scopes EXCEPT ![s] = r.scope]
                /\ objs' = r.objs
                /\ held' = IF r.obj = 0 THEN NoHeld ELSE [obj |-> r.obj, from |-> s]
                /\ last' = [Op("read", h, s) EXCEPT !.found = Found(scopes[s], h), !.ret = r.obj]
    /\ UNCHANGED <<refs, msg, intent, pristine, origin>>

\* write: the caller creates new_value, calls _assign and releases its reference.
_assign(c, h, new_value) ==
    /\ Tick
    /\ refs[c] # 0
    /\ Cardinality(FreeObjIds(objs)) >= (IF IsReadonly(new_value) THEN 1 ELSE 2)
    /\ LET s == refs[c]
           n == AllocId(objs)
           r == AssignBody(scopes[s], [objs EXCEPT ![n] = new_value], h, n)
       IN /\ scopes' = [scopes EXCEPT ![s] = r.scope]
          /\ objs' = filterx_object_unref(r.objs, n)
          /\ intent' = [intent EXCEPT ![s][h] = Written(filterx_object_marshal(new_value))]
          /\ pristine' = [pristine EXCEPT ![s] = FALSE]
          /\ last' = [Op("write", h, s) EXCEPT !.found = Found(scopes[s], h)]
    /\ UNCHANGED <<refs, msg, held, origin>>

\* is_set: _isset changes nothing; its answer is recorded.
_isset(c, h) ==
    /\ Tick
    /\ refs[c] # 0
    /\ last' = [Op("is_set", h, refs[c]) EXCEPT !.found = Found(scopes[refs[c]], h),
                                               !.isset = IssetBody(scopes[refs[c]], msg, h)]
    /\ UNCHANGED <<scopes, refs, objs, msg, held, intent, pristine, origin>>

\* clear: _unset.
_unset(c, h) ==
    /\ Tick
    /\ refs[c] # 0
    /\ LET s == refs[c]
           r == UnsetBody(scopes[s], objs, msg, h)
       IN /\ scopes' = [scopes EXCEPT ![s] = r.scope]
          /\ objs' = r.objs
          /\ intent' = [intent EXCEPT ![s][h] = Cleared]
          /\ pristine' = [pristine EXCEPT ![s] = FALSE]
          /\ last' = [Op("clear", h, s) EXCEPT !.found = Found(scopes[s], h)]
    /\ UNCHANGED <<refs, msg, held, origin>>

\* _update_repr: g_assert(variable != NULL) aborts when the handle is not
\* bound; otherwise filterx_variable_set_value with the caller's new_repr.
_update_repr(c, h, new_repr) ==
    /\ Tick
    /\ refs[c] # 0
    /\ CanAlloc(objs)
    /\ LET s == refs[c]
           variable == filterx_scope_lookup_variable(scopes[s], h)
           n == AllocId(objs)
       IN /\ variable # 0
          /\ LET r == filterx_variable_set_value(scopes[s], [objs EXCEPT ![n] = new_repr], variable, n)
             IN /\ scopes' = [scopes EXCEPT ![s] = r.scope]
                /\ objs' = filterx_object_unref(r.objs, n)
          /\ intent' = [intent EXCEPT ![s][h] = NoIntent]
          /\ pristine' = [pristine EXCEPT ![s] = FALSE]
          /\ last' = Op("update_repr", h, s)
    /\ UNCHANGED <<refs, msg, held, origin>>

\* The expression mutates the mutable value it holds (a list append): the
\* value's content changes and its modified_in_place flag is set.
MutateInPlace ==
    /\ Tick
    /\ held.obj # 0
    /\ ~IsReadonly(objs[held.obj])
    /\ Len(objs[held.obj].val) < MaxLen
    /\ objs' = [objs EXCEPT ![held.obj].val = Append(@, 2),
                            ![held.obj].modified_in_place = TRUE]
    /\ intent' = [s \in ScopeIds |-> [h \in Handles |->
                    IF h \in HandlesHolding(scopes[s], held.obj) THEN NoIntent ELSE intent[s][h]]]
    /\ pristine' = [s \in ScopeIds |-> pristine[s] /\ s \notin ScopesHolding(scopes, held.obj)]
    /\ last' = Op("mutate", 0, held.from)
    /\ UNCHANGED <<scopes, refs, msg, held, origin>>

\* The expression releases the reference it holds.
ReleaseHeld ==
    /\ Tick
    /\ held.obj # 0
    /\ objs' = filterx_object_unref(objs, held.obj)
    /\ held' = NoHeld
    /\ last' = Op("release", 0, 0)
    /\ UNCHANGED <<scopes, refs, msg, intent, pristine, origin>>


\* ------------------------------------------------------------------ Scope actions
\* The caller creates initial_value (NoObj stands for NULL), calls
\* filterx_scope_register_variable and releases its reference.
Register(c, h, floating, initial_value) ==
    /\ Tick
    /\ refs[c] # 0
    /\ initial_value # NoObj => CanAlloc(objs)
    /\ LET s == refs[c]
           n == IF initial_value = NoObj THEN 0 ELSE AllocId(objs)
           O1 == IF n = 0 THEN objs ELSE [objs EXCEPT ![n] = initial_value]
           r == filterx_scope_register_variable(scopes[s], O1, h, floating, n)
       IN /\ scopes' = [scopes EXCEPT ![s] = r.scope]
          /\ objs' = filterx_object_unref(r.objs, n)
          /\ pristine' = [pristine EXCEPT ![s] = FALSE]
          /\ last' = [Op("register", h, s) EXCEPT !.found = Found(scopes[s], h), !.ret = r.slot]
    /\ UNCHANGED <<refs, msg, held, intent, origin>>

\* filterx_scope_store_weak_ref(self, object) with the object the expression
\* holds; g_assert(self->write_protected == FALSE) aborts on a protected scope.
filterx_scope_store_weak_ref(c) ==
    /\ Tick
    /\ refs[c] # 0
    /\ held.obj # 0
    /\ ~scopes[refs[c]].write_protected
    /\ Len(scopes[refs[c]].weak_refs) < MaxWeak
    /\ scopes' = [scopes EXCEPT ![refs[c]].weak_refs = Append(@, held.obj)]
    /\ objs' = filterx_object_ref(objs, held.obj)
    /\ pristine' = [pristine EXCEPT ![refs[c]] = FALSE]
    /\ last' = Op("store_weak_ref", 0, refs[c])
    /\ UNCHANGED <<refs, msg, held, intent, origin>>

\* filterx_scope_sync_to_message(self, msg) on the holder's scope.
Sync(c) ==
    /\ Tick
    /\ refs[c] # 0
    /\ LET s == refs[c]
           r == filterx_scope_sync_to_message(scopes[s], objs, msg)
       IN /\ scopes' = [scopes EXCEPT ![s] = r.scope]
          /\ objs' = r.objs
          /\ msg' = r.msg
          /\ intent' = [t \in ScopeIds |-> [h \in Handles |->
                          IF t # s /\ h \in r.set \cup r.unset THEN NoIntent ELSE intent[t][h]]]
          /\ last' = [Op("sync", 0, s) EXCEPT !.set = r.set, !.unset = r.unset]
    /\ UNCHANGED <<refs, held, pristine, origin>>

\* filterx_scope_write_protect(self)
filterx_scope_write_protect(c) ==
    /\ Tick
    /\ refs[c] # 0
    /\ ~scopes[refs[c]].write_protected
    /\ scopes' = [scopes EXCEPT ![refs[c]].write_protected = TRUE]
    /\ last' = Op("write_protect", 0, refs[c])
    /\ UNCHANGED <<refs, objs, msg, held, intent, pristine, origin>>

\* filterx_scope_ref(self): holder d takes a reference to the scope of holder c.
filterx_scope_ref(c, d) ==
    /\ Tick
    /\ refs[c] # 0
    /\ refs[d] = 0
    /\ scopes' = [scopes EXCEPT ![refs[c]].ref_cnt = @ + 1]
    /\ refs' = [refs EXCEPT ![d] = refs[c]]
    /\ last' = Op("ref", 0, refs[c])
    /\ UNCHANGED <<objs, msg, held, intent, pristine, origin>>

\* The body of filterx_scope_make_writable(pself) for *pself = s: the scope
\* heap, the object heap and the new *pself.
MakeWritableBody(SS, O, s) ==
    IF SS[s].write_protected
    THEN LET new == AllocScopeId(SS)
             cl == filterx_scope_clone(SS[s], O)
             u == filterx_scope_unref([SS EXCEPT ![new] = cl.scope], cl.objs, s)
         IN [scopes |-> u.scopes, objs |-> u.objs, self |-> new]
    ELSE [scopes |-> SS, objs |-> O, self |-> s]

\* filterx_scope_make_writable(&refs[c])
filterx_scope_make_writable(c) ==
    /\ Tick
    /\ refs[c] # 0
    /\ LET s == refs[c]
       IN /\ scopes[s].write_protected =>
                /\ FreeScopeIds(scopes) # {}
                /\ Cardinality(FreeObjIds(objs)) >= Cardinality(MutableValues(scopes[s], objs))
          /\ LET r == MakeWritableBody(scopes, objs, s)
             IN /\ scopes' = r.scopes
                /\ objs' = r.objs
                /\ refs' = [refs EXCEPT ![c] = r.self]
                /\ intent' = [t \in ScopeIds |->
                                IF r.scopes[t].ref_cnt = 0 \/ (t = r.self /\ t # s)
                                THEN NoIntents ELSE intent[t]]
                /\ pristine' = [t \in ScopeIds |->
                                  pristine[t] /\ r.scopes[t].ref_cnt # 0 /\ (t = s \/ t # r.self)]
                /\ origin' = [t \in ScopeIds |->
                                IF t = r.self /\ t # s
                                THEN (IF r.scopes[s].ref_cnt # 0 THEN s ELSE 0)
                                ELSE IF r.scopes[t].ref_cnt = 0 \/ (origin[t] # 0 /\ r.scopes[origin[t]].ref_cnt = 0)
                                THEN 0 ELSE origin[t]]
                /\ last' = Op("make_writable", 0, s)
    /\ UNCHANGED <<msg, held>>

\* filterx_scope_unref(self): the holder drops its reference.
ScopeUnref(c) ==
    /\ Tick
    /\ refs[c] # 0
    /\ LET r == filterx_scope_unref(scopes, objs, refs[c])
       IN /\ scopes' = r.scopes
          /\ objs' = r.objs
          /\ intent' = Forget(intent, r.scopes, NoIntents)
          /\ pristine' = Forget(pristine, r.scopes, FALSE)
          /\ origin' = [t \in ScopeIds |->
                          IF r.scopes[t].ref_cnt = 0 \/ (origin[t] # 0 /\ r.scopes[origin[t]].ref_cnt = 0)
                          THEN 0 ELSE origin[t]]
    /\ refs' = [refs EXCEPT ![c] = 0]
    /\ last' = Op("unref", 0, refs[c])
    /\ UNCHANGED <<msg, held>>

\* filterx_scope_lookup_variable(self, handle): changes nothing; the slot
\* found (0 for NULL) is recorded.
Lookup(c, h) ==
    /\ Tick
    /\ refs[c] # 0
    /\ last' = [Op("lookup", h, refs[c]) EXCEPT !.found = Found(scopes[refs[c]], h),
                                               !.ret = filterx_scope_lookup_variable(scopes[refs[c]], h)]
    /\ UNCHANGED <<scopes, refs, objs, msg, held, intent, pristine, origin>>

Next ==
    \/ \E c \in Slots, h \in Handles : _eval(c, h)
    \/ \E c \in Slots, h \in Handles, v \in NewValues : _assign(c, h, v)
    \/ \E c \in Slots, h \in Handles : _isset(c, h)
    \/ \E c \in Slots, h \in Handles : _unset(c, h)
    \/ \E c \in Slots, h \in Handles, v \in NewReprs : _update_repr(c, h, v)
    \/ MutateInPlace
    \/ ReleaseHeld
    \/ \E c \in Slots, h \in Handles, f \in BOOLEAN, v \in InitialValues : Register(c, h, f, v)
    \/ \E c \in Slots : filterx_scope_store_weak_ref(c)
    \/ \E c \in Slots : Sync(c)
    \/ \E c \in Slots : filterx_scope_write_protect(c)
    \/ \E c, d \in Slots : filterx_scope_ref(c, d)
    \/ \E c \in Slots : filterx_scope_make_writable(c)
    \/ \E c \in Slots : ScopeUnref(c)

Spec == Init /\ [][Next]_vars


\* The variable table alone: register and lookup with handles in any order.
InitReg == InitWith(MaxRegSteps)

NextReg ==
    \/ \E h \in RegHandles, f \in BOOLEAN, v \in InitialValues : Register(1, h, f, v)
    \/ \E h \in RegHandles : Lookup(1, h)

SpecReg == InitReg /\ [][NextReg]_vars

\* One scope populated through the lazy reference only (read, write, is_set,
\* clear, and the expression's use of the value it read), synced to a Record
\* that nothing else modifies.
InitLazy == InitWith(MaxLazySteps)

NextLazy ==
    \/ \E h \in Handles : _eval(1, h)
    \/ \E h \in Handles, v \in NewValues : _assign(1, h, v)
    \/ \E h \in Handles : _isset(1, h)
    \/ \E h \in Handles : _unset(1, h)
    \/ MutateInPlace
    \/ ReleaseHeld
    \/ Sync(1)

SpecLazy == InitLazy /\ [][NextLazy]_vars

\* ------------------------------------------------------------------ observations
\* What a Variable's value looks like from outside: its type, content and flags.
ValueView(O, o) ==
    IF o = 0
    THEN [type |-> "null", val |-> <<>>, t |-> "-", modified_in_place |-> FALSE]
    ELSE [type |-> O[o].type, val |-> O[o].val, t |-> O[o].t,
          modified_in_place |-> O[o].modified_in_place]

VarView(O, v) ==
    [handle |-> v.handle, floating |-> v.floating, assigned |-> v.assigned,
     value |-> ValueView(O, v.value)]

\* Everything observable of scope s: its Variables with their values.
View(SS, O, s) == [i \in 1..Len(SS[s].variables) |-> VarView(O, SS[s].variables[i])]

\* The same without the values' modified_in_place flags.
Content(SS, O, s) ==
    [i \in 1..Len(SS[s].variables) |->
        [VarView(O, SS[s].variables[i]) EXCEPT !.value.modified_in_place = FALSE]]

Live(SS, s) == SS[s].ref_cnt # 0

\* The Variable of scope sc for handle h; only used where Found(sc, h).
VariableOf(sc, h) == sc.variables[filterx_scope_lookup_variable(sc, h)]

\* ------------------------------------------------------------------ racing make_writable
\* Every holder owns one reference to the same write-protected scope and
\* runs filterx_scope_make_writable(&refs[c]) as a thread of its own. The
\* steps of a thread: the test of write_protected, filterx_scope_new in
\* filterx_scope_clone, one iteration of the clone loop at a time,
\* filterx_scope_unref of the shared scope, the store to *pself.

\* What the shared scope holds for a handle when the race starts.
RaceKinds == {"none", "whiteout", "integer", "list", "floating"}

\* The scope so.scope on heap so.objs after giving handle h a Variable of the kind.
Populated(so, h, kind) ==
    LET n == AllocId(so.objs)
    IN CASE kind = "whiteout" ->
                LET r == _whiteout_variable(so.scope, so.objs, h)
                IN [scope |-> r.scope, objs |-> r.objs]
         [] kind \in {"integer", "list"} ->
                LET new_value == IF kind = "integer" THEN NewInteger ELSE NewList
                    r == AssignBody(so.scope, [so.objs EXCEPT ![n] = new_value], h, n)
                IN [scope |-> r.scope, objs |-> filterx_object_unref(r.objs, n)]
         [] kind = "floating" ->
                LET r == filterx_scope_register_variable(so.scope, [so.objs EXCEPT ![n] = NewInteger],
                                                         h, TRUE, n)
                IN [scope |-> r.scope, objs |-> filterx_object_unref(r.objs, n)]
         [] OTHER -> so

RECURSIVE PopulatedFrom(_, _, _)
PopulatedFrom(so, kinds, h) ==
    IF h > MaxHandle THEN so ELSE PopulatedFrom(Populated(so, h, kinds[h]), kinds, h + 1)

\* The objects a race needs: one per value of the shared scope and one per
\* holder for every mutable value.
ObjectsNeeded(kinds) ==
    Cardinality({h \in Handles : kinds[h] \in {"integer", "list", "floating"}})
        + NSlots * Cardinality({h \in Handles : kinds[h] = "list"})

RaceStarts == {kinds \in [Handles -> RaceKinds] : ObjectsNeeded(kinds) <= MaxObj}

InitRace ==
    \E kinds \in RaceStarts :
        LET so == PopulatedFrom([scope |-> filterx_scope_new, objs |-> [o \in ObjIds |-> NoObj]], kinds, 1)
            shared == [so.scope EXCEPT !.write_protected = TRUE, !.ref_cnt = NSlots]
        IN /\ scopes = [s \in ScopeIds |-> IF s = 1 THEN shared ELSE NoScope]
           /\ refs = [c \in Slots |-> 1]
           /\ objs = so.objs
           /\ msg = [h \in Handles |-> NoValue]
           /\ held = NoHeld
           /\ last = Op("init", 0, 0)
           /\ intent = [s \in ScopeIds |-> NoIntents]
           /\ pristine = [s \in ScopeIds |-> FALSE]
           /\ origin = [s \in ScopeIds |-> 0]
           /\ steps = 0
           /\ pc = [c \in Slots |-> "start"]
           /\ local = [c \in Slots |-> NoLocal]
           /\ race = [content |-> Content(scopes, objs, 1), freed |-> 0]
           /\ stats = NoStats

RaceFrame == UNCHANGED <<msg, held, last, intent, pristine, origin, steps, stats>>

\* if ((*pself)->write_protected)
mw_test(c) ==
    /\ pc[c] = "start"
    /\ pc' = [pc EXCEPT ![c] = IF scopes[refs[c]].write_protected THEN "new" ELSE "done"]
    /\ UNCHANGED <<scopes, refs, objs, local, race>>
    /\ RaceFrame

\* filterx_scope_clone: FilterXScope *self = filterx_scope_new();
mw_clone_new(c) ==
    /\ pc[c] = "new"
    /\ FreeScopeIds(scopes) # {}
    /\ LET new == AllocScopeId(scopes)
       IN /\ scopes' = [scopes EXCEPT ![new] = filterx_scope_new]
          /\ local' = [local EXCEPT ![c] = [new |-> new, i |-> 1, seen |-> <<>>]]
    /\ pc' = [pc EXCEPT ![c] = "copy"]
    /\ UNCHANGED <<refs, objs, race>>
    /\ RaceFrame

\* One iteration of the loop of filterx_scope_clone: Variable i of other is
\* appended to self and its value replaced by the clone of the value.
CloneStep(self, other, O, i) ==
    LET v == other.variables[i]
        c == filterx_object_clone(O, v.value)
    IN [scope |-> [self EXCEPT !.variables = Append(@, [v EXCEPT !.value = c.obj])],
        objs |-> c.objs]

\* filterx_scope_clone: the loop test and one iteration, reading the shared scope.
mw_clone_copy(c) ==
    /\ pc[c] = "copy"
    /\ LET other == scopes[refs[c]]
           i == local[c].i
       IN IF i <= Len(other.variables)
          THEN /\ (other.variables[i].value # 0 /\ ~IsReadonly(objs[other.variables[i].value]))
                      => CanAlloc(objs)
               /\ LET r == CloneStep(scopes[local[c].new], other, objs, i)
                  IN /\ scopes' = [scopes EXCEPT ![local[c].new] = r.scope]
                     /\ objs' = r.objs
               /\ local' = [local EXCEPT ![c].i = i + 1]
               /\ pc' = pc
          ELSE /\ pc' = [pc EXCEPT ![c] = "unref"]
               /\ UNCHANGED <<scopes, objs, local>>
    /\ UNCHANGED <<refs, race>>
    /\ RaceFrame

\* filterx_scope_unref(*pself): the atomic decrement and test, and _free by
\* the thread that brought the counter to zero.
mw_unref(c) ==
    /\ pc[c] = "unref"
    /\ LET r == filterx_scope_unref(scopes, objs, refs[c])
       IN /\ scopes' = r.scopes
          /\ objs' = r.objs
          /\ race' = [race EXCEPT !.freed = IF r.scopes[refs[c]].ref_cnt = 0 THEN @ + 1 ELSE @]
    /\ pc' = [pc EXCEPT ![c] = "store"]
    /\ UNCHANGED <<refs, local>>
    /\ RaceFrame

\* *pself = new;
mw_store(c) ==
    /\ pc[c] = "store"
    /\ refs' = [refs EXCEPT ![c] = local[c].new]
    /\ pc' = [pc EXCEPT ![c] = "done"]
    /\ UNCHANGED <<scopes, objs, local, race>>
    /\ RaceFrame

NextRace ==
    \/ \E c \in Slots : mw_test(c)
    \/ \E c \in Slots : mw_clone_new(c)
    \/ \E c \in Slots : mw_clone_copy(c)
    \/ \E c \in Slots : mw_unref(c)
    \/ \E c \in Slots : mw_store(c)

SpecRace == InitRace /\ [][NextRace]_vars

\* ------------------------------------------------------------------ stats registry
\* A counter slot of the registry: registered or not, and its value.
Counter(registered, value) == [registered |-> registered, value |-> value]

CounterStates == {Counter(FALSE, 0)} \cup {Counter(TRUE, v) : v \in 0..MaxCount}

\* stats_lock() by thread t (waits until the lock is free) and stats_unlock()
stats_lock(st, t) == [st EXCEPT !.lock = t]
stats_unlock(st) == [st EXCEPT !.lock = 0]

\* stats_counter_set(counter, value)
stats_counter_set(counters, k, value) == [counters EXCEPT ![k].value = value]

\* A callback that leaves the counter as it is.
ResetCounterKeeps(counters, k) == counters

\* _reset_counter(sc, type, counter, user_data)
_reset_counter(counters, k) == stats_counter_set(counters, k, 0)

\* Thread 1 runs stats_reset_counters once; every other thread, again and
\* again, takes the lock to register a counter or to iterate over them.
Resetter == 1

InitStats ==
    /\ scopes = [s \in ScopeIds |-> NoScope]
    /\ refs = [c \in Slots |-> 0]
    /\ objs = [o \in ObjIds |-> NoObj]
    /\ msg = [h \in Handles |-> NoValue]
    /\ held = NoHeld
    /\ last = Op("init", 0, 0)
    /\ intent = [s \in ScopeIds |-> NoIntents]
    /\ pristine = [s \in ScopeIds |-> FALSE]
    /\ origin = [s \in ScopeIds |-> 0]
    /\ steps = 0
    /\ pc = [t \in Threads |-> "idle"]
    /\ local = [t \in Threads |-> NoLocal]
    /\ race = NoRace
    /\ stats \in [lock : {0}, counters : [CounterIds -> CounterStates]]

StatsFrame ==
    UNCHANGED <<scopes, refs, objs, msg, held, last, intent, pristine, origin, steps, race>>

\* stats_reset_counters: stats_lock(); the counters registered at this
\* moment are remembered in seen.
reset_lock ==
    /\ pc[Resetter] = "idle"
    /\ stats.lock = 0
    /\ stats' = stats_lock(stats, Resetter)
    /\ local' = [local EXCEPT ![Resetter] =
                    [new |-> 0, i |-> 1, seen |-> [k \in CounterIds |-> stats.counters[k].registered]]]
    /\ pc' = [pc EXCEPT ![Resetter] = "foreach"]
    /\ StatsFrame

\* stats_reset_counters: stats_foreach_counter(_reset_counter, NULL), one
\* counter slot at a time; the callback runs on the registered ones.
reset_foreach ==
    /\ pc[Resetter] = "foreach"
    /\ LET i == local[Resetter].i
       IN IF i <= MaxCounters
          THEN /\ stats' = IF stats.counters[i].registered
                           THEN [stats EXCEPT !.counters = _reset_counter(@, i)]
                           ELSE stats
               /\ local' = [local EXCEPT ![Resetter].i = i + 1]
               /\ pc' = pc
          ELSE /\ pc' = [pc EXCEPT ![Resetter] = "unlock"]
               /\ UNCHANGED <<stats, local>>
    /\ StatsFrame

\* stats_reset_counters: stats_unlock()
reset_unlock ==
    /\ pc[Resetter] = "unlock"
    /\ stats' = stats_unlock(stats)
    /\ pc' = [pc EXCEPT ![Resetter] = "done"]
    /\ UNCHANGED local
    /\ StatsFrame

\* Another thread takes the lock, to register a counter or to iterate.
user_lock(t, what) ==
    /\ t # Resetter
    /\ pc[t] = "idle"
    /\ stats.lock = 0
    /\ stats' = stats_lock(stats, t)
    /\ local' = [local EXCEPT ![t] = [new |-> 0, i |-> 1, seen |-> <<>>]]
    /\ pc' = [pc EXCEPT ![t] = what]
    /\ StatsFrame

\* It registers a counter: a free slot becomes a counter with value 0.
user_register(t) ==
    /\ pc[t] = "register"
    /\ \E k \in CounterIds :
          /\ ~stats.counters[k].registered
          /\ stats' = [stats EXCEPT !.counters[k] = Counter(TRUE, 0)]
    /\ pc' = [pc EXCEPT ![t] = "unlock"]
    /\ UNCHANGED local
    /\ StatsFrame

\* It iterates: one counter slot at a time is read into seen.
user_iterate(t) ==
    /\ pc[t] = "iterate"
    /\ LET i == local[t].i
       IN IF i <= MaxCounters
          THEN /\ local' = [local EXCEPT ![t].i = i + 1,
                                         ![t].seen = Append(@, stats.counters[i])]
               /\ pc' = pc
          ELSE /\ pc' = [pc EXCEPT ![t] = "unlock"]
               /\ UNCHANGED local
    /\ UNCHANGED stats
    /\ StatsFrame

\* It releases the lock.
user_unlock(t) ==
    /\ t # Resetter
    /\ pc[t] = "unlock"
    /\ stats' = stats_unlock(stats)
    /\ local' = [local EXCEPT ![t] = NoLocal]
    /\ pc' = [pc EXCEPT ![t] = "idle"]
    /\ StatsFrame

NextStats ==
    \/ reset_lock
    \/ reset_foreach
    \/ reset_unlock
    \/ \E t \in Threads, what \in {"register", "iterate"} : user_lock(t, what)
    \/ \E t \in Threads : user_register(t)
    \/ \E t \in Threads : user_iterate(t)
    \/ \E t \in Threads : user_unlock(t)

SpecStats == InitStats /\ [][NextStats]_vars

\* A thread is between its stats_lock and its stats_unlock.
InCritical(t) == pc[t] \in {"foreach", "register", "iterate", "unlock"}

\* ------------------------------------------------------------------ claims
\* C1: copy-on-write isolation. make_writable on a write-protected scope
\* gives the holder a fresh, unprotected scope with the same handles, flags
\* and value-equal contents; and no operation applied to one scope changes
\* any Variable (handle, flags, value content) of any other live scope, be it
\* the original, the clone or a sibling clone, floating or not.
CowIsolation ==
    [][ /\ \A t \in ScopeIds :
            (Live(scopes, t) /\ Live(scopes', t) /\ t # last'.scope)
                => View(scopes', objs', t) = View(scopes, objs, t)
        /\ (last'.op = "make_writable" /\ scopes[last'.scope].write_protected)
                => \E c \in Slots :
                      /\ refs[c] = last'.scope
                      /\ refs'[c] # refs[c]
                      /\ ~Live(scopes, refs'[c])
                      /\ ~scopes'[refs'[c]].write_protected
                      /\ Content(scopes', objs', refs'[c]) = Content(scopes, objs, refs[c])
      ]_vars

\* C1 witness: a clone and the scope it was cloned from are both alive and
\* differ, after a mutating operation on one of them.
CowWitness ==
    \E s \in ScopeIds :
        /\ origin[s] # 0
        /\ Live(scopes, s) /\ Live(scopes, origin[s])
        /\ last.op \in {"write", "clear", "register", "update_repr", "mutate"}
        /\ last.scope \in {s, origin[s]}
        /\ View(scopes, objs, s) # View(scopes, objs, origin[s])

\* C2, as claimed: a write through a holder whose scope is write-protected
\* stores the value into a fresh clone that replaces the holder's scope, and
\* the protected scope keeps its Variables.
WriteClonesProtected ==
    [][ (last'.op = "write" /\ scopes[last'.scope].write_protected)
            => /\ \E c \in Slots : refs[c] = last'.scope /\ refs'[c] # refs[c]
               /\ View(scopes', objs', last'.scope) = View(scopes, objs, last'.scope)
      ]_vars

\* C3, as claimed: no read, is_set or clear applied to a write-protected
\* scope adds a Variable to it or changes a value or an assigned flag.
ProtectedNeverMutated ==
    [][ (last'.op \in {"read", "is_set", "clear"} /\ scopes[last'.scope].write_protected)
            => View(scopes', objs', last'.scope) = View(scopes, objs, last'.scope)
      ]_vars

\* C4, as claimed: sync issues a Record set for h iff the Variable is
\* non-floating and (assigned or its value is modified in place).
SyncSetIffAssignedOrModified ==
    [][ last'.op = "sync" =>
            \A i \in 1..Len(scopes[last'.scope].variables) :
                LET v == scopes[last'.scope].variables[i]
                IN v.handle \in last'.set <=>
                      (~v.floating /\ (v.assigned \/ (v.value # 0 /\ objs[v.value].modified_in_place)))
      ]_vars

\* C4, amended: sync issues a Record set for h iff the Variable is
\* non-floating, its value is present, and it is assigned or its value is
\* modified in place.
SyncSetIff ==
    [][ last'.op = "sync" =>
            \A i \in 1..Len(scopes[last'.scope].variables) :
                LET v == scopes[last'.scope].variables[i]
                IN v.handle \in last'.set <=>
                      (~v.floating /\ v.value # 0 /\ (v.assigned \/ objs[v.value].modified_in_place))
      ]_vars

\* C4 witness: a sync that issued a Record set for one Variable and, for
\* another whose value is absent, an unset and no set.
SyncSetWitness ==
    /\ last.op = "sync"
    /\ last.set # {}
    /\ \E i \in 1..Len(scopes[last.scope].variables) :
          LET v == scopes[last.scope].variables[i]
          IN v.value = 0 /\ v.handle \in last.unset /\ v.handle \notin last.set

\* C5, as claimed: sync issues a Record unset for h iff the Variable's value
\* is absent.
SyncUnsetIffAbsent ==
    [][ last'.op = "sync" =>
            \A i \in 1..Len(scopes[last'.scope].variables) :
                LET v == scopes[last'.scope].variables[i]
                IN v.handle \in last'.unset <=> v.value = 0
      ]_vars

\* C5, amended: sync issues a Record unset for h iff the Variable is
\* non-floating and its value is absent.
SyncUnsetIff ==
    [][ last'.op = "sync" =>
            \A i \in 1..Len(scopes[last'.scope].variables) :
                LET v == scopes[last'.scope].variables[i]
                IN v.handle \in last'.unset <=> (~v.floating /\ v.value = 0)
      ]_vars

\* C5 witness: a sync that issued an unset and left a floating Variable
\* with an absent value alone.
SyncUnsetWitness ==
    /\ last.op = "sync"
    /\ last.unset # {}
    /\ \E i \in 1..Len(scopes[last.scope].variables) :
          LET v == scopes[last.scope].variables[i]
          IN v.floating /\ v.value = 0 /\ v.handle \notin last.unset

\* C6: a sync of a scope that was created empty and has only been read and
\* tested (is_set) issues no Record set and no Record unset, and leaves the
\* Record as it was.
ReadOnlyNoWrites ==
    [][ (last'.op = "sync" /\ pristine[last'.scope])
            => (last'.set = {} /\ last'.unset = {} /\ msg' = msg)
      ]_vars

\* C6 witness: such a sync, of a scope into which a read has pulled a field.
ReadOnlyWitness ==
    /\ last.op = "sync"
    /\ pristine[last.scope]
    /\ Len(scopes[last.scope].variables) > 0

\* C7: immediately after sync, every handle whose last write has not been
\* followed by a clear, another assignment or an in-place mutation, and whose
\* Variable is one of the lazy reference's (non-floating), is in the Record
\* with the marshalled bytes and type tag of the value written.
WriteReachesRecord ==
    last.op = "sync" =>
        \A h \in Handles :
            (/\ intent[last.scope][h].kind = "written"
             /\ Found(scopes[last.scope], h)
             /\ ~VariableOf(scopes[last.scope], h).floating)
                => msg[h] = intent[last.scope][h].value

\* C7 witness: a sync that wrote a field a write asked for.
WriteReachesRecordWitness ==
    /\ last.op = "sync"
    /\ \E h \in last.set :
          /\ intent[last.scope][h].kind = "written"
          /\ msg[h] = intent[last.scope][h].value

\* C8: immediately after clear(h), is_set(h) is false and read(h) is absent;
\* immediately after the next sync of the scope (no write of h in between)
\* the Record does not contain h. The Variable is absent or one of the lazy
\* reference's (non-floating).
ClearTakesEffect ==
    /\ last.op = "clear" =>
          /\ ~IssetBody(scopes[last.scope], msg, last.h)
          /\ EvalBody(scopes[last.scope], objs, msg, last.h).obj = 0
    /\ last.op = "sync" =>
          \A h \in Handles :
              (/\ intent[last.scope][h].kind = "cleared"
               /\ Found(scopes[last.scope], h) => ~VariableOf(scopes[last.scope], h).floating)
                  => ~log_msg_is_value_set(msg, h)

\* C8 witness: a sync that removed from the Record a field a clear asked for.
ClearTakesEffectWitness ==
    /\ last.op = "sync"
    /\ \E h \in last.unset : intent[last.scope][h].kind = "cleared"


\* The handles in the table of scope sc.
HandleSet(sc) == {sc.variables[i].handle : i \in 1..Len(sc.variables)}

StrictlyAscending(sc) ==
    \A i \in 1..Len(sc.variables) - 1 : sc.variables[i].handle < sc.variables[i + 1].handle

\* C9: after any sequence of register calls the table is strictly ascending
\* by handle (so no handle twice); each register adds exactly its handle to
\* the handles of the table; lookup(h) finds a Variable exactly for the
\* handles of the table, and the Variable it finds has handle h.
TableSortedLookupCorrect ==
    /\ [](\A s \in ScopeIds : Live(scopes, s) =>
            /\ StrictlyAscending(scopes[s])
            /\ \A h \in RegHandles :
                  LET lk == _lookup_variable(scopes[s], h)
                  IN /\ lk.found <=> h \in HandleSet(scopes[s])
                     /\ lk.found => scopes[s].variables[lk.index + 1].handle = h)
    /\ [][ last'.op = "register" =>
              HandleSet(scopes'[last'.scope]) = HandleSet(scopes[last'.scope]) \cup {last'.h}
         ]_vars
    /\ [](last.op = "lookup" => (last.ret # 0 <=> last.h \in HandleSet(scopes[last.scope])))

\* C9 witness: a register inserted a new handle in the middle of the table.
TableWitness ==
    /\ last.op = "register"
    /\ ~last.found
    /\ Len(scopes[last.scope].variables) >= 3
    /\ last.ret = 2

\* C10: register on a handle the scope already has returns the slot of the
\* existing Variable and changes neither the table (size, value, floating,
\* assigned) nor any reference count: the new initial value is not referenced.
RegisterIdempotent ==
    [][ (last'.op = "register" /\ Found(scopes[last'.scope], last'.h))
            => /\ scopes' = scopes
               /\ objs' = objs
               /\ last'.ret = filterx_scope_lookup_variable(scopes[last'.scope], last'.h)
      ]_vars

\* C10 witness: a register found its handle present.
RegisterIdempotentWitness ==
    /\ last.op = "register"
    /\ last.found
    /\ last.ret # 0

\* The Variables of scope sc, as a set.
VariableSet(sc) == {sc.variables[i] : i \in 1..Len(sc.variables)}

\* Every content the Record can have.
AnyRecord == [Handles -> {NoValue, Hello}]

\* C11: a read of a handle the scope has no Variable for and the Record has
\* no value for returns absent and leaves the scope as it was; when the
\* Record has the value, the read adds exactly one Variable, non-floating and
\* not assigned, holding the Record's bytes and type, and returns that value;
\* a read of a handle the scope has a Variable for returns the Variable's
\* value whatever the Record holds, and changes no table. No read changes
\* the Record.
LazyReadNoPollution ==
    [][ last'.op = "read" =>
            LET s == last'.scope
                h == last'.h
            IN /\ msg' = msg
               /\ (~Found(scopes[s], h) /\ ~log_msg_is_value_set(msg, h))
                      => (last'.ret = 0 /\ scopes' = scopes /\ objs' = objs)
               /\ (~Found(scopes[s], h) /\ log_msg_is_value_set(msg, h))
                      => /\ last'.ret # 0
                         /\ Len(scopes'[s].variables) = Len(scopes[s].variables) + 1
                         /\ VariableSet(scopes'[s]) =
                                VariableSet(scopes[s]) \cup {Variable(h, FALSE, FALSE, last'.ret)}
                         /\ filterx_object_marshal(objs'[last'.ret]) = msg[h]
               /\ Found(scopes[s], h)
                      => /\ scopes' = scopes
                         /\ last'.ret = VariableOf(scopes[s], h).value
                         /\ \A M \in AnyRecord : EvalBody(scopes[s], objs, M, h).obj = last'.ret
      ]_vars

\* C11 witness: a read served from the Variable an earlier read pulled from
\* the Record.
LazyReadWitness ==
    /\ last.op = "read"
    /\ last.found
    /\ last.ret # 0
    /\ objs[last.ret].type = "message_value"
    /\ ~VariableOf(scopes[last.scope], last.h).assigned

\* C12: the Record changes in a sync step only: no read, write, is_set or
\* clear (nor any other operation on a scope or a value) changes it; and a
\* clear of a handle that is set in the Record and has no Variable registers
\* a non-floating Variable with an absent value and leaves the Record alone.
RecordOnlyBySync ==
    [][ /\ msg' # msg => last'.op = "sync"
        /\ (/\ last'.op = "clear"
            /\ ~Found(scopes[last'.scope], last'.h)
            /\ log_msg_is_value_set(msg, last'.h))
               => /\ Found(scopes'[last'.scope], last'.h)
                  /\ ~VariableOf(scopes'[last'.scope], last'.h).floating
                  /\ VariableOf(scopes'[last'.scope], last'.h).value = 0
                  /\ msg' = msg
      ]_vars

\* C12 witness: a clear has registered a whiteout and the Record still has
\* the field.
RecordOnlyBySyncWitness ==
    /\ last.op = "clear"
    /\ ~last.found
    /\ Found(scopes[last.scope], last.h)
    /\ VariableOf(scopes[last.scope], last.h).value = 0
    /\ log_msg_is_value_set(msg, last.h)

\* The objects the weak_refs array of scope sc points to.
WeakRefs(sc) == {sc.weak_refs[i] : i \in 1..Len(sc.weak_refs)}

\* The objects the Variables of scope sc hold.
ValuesOf(sc) == {sc.variables[i].value : i \in 1..Len(sc.variables)} \ {0}

\* C13, as claimed: store_weak_ref leaves the reference count of the value
\* as it was, and a scope that is freed does not release a value that only
\* its weak_refs track.
WeakRefNeverOwns ==
    [][ /\ last'.op = "store_weak_ref"
            => objs'[held.obj].ref_cnt = objs[held.obj].ref_cnt
        /\ \A s \in ScopeIds : \A o \in WeakRefs(scopes[s]) \ ValuesOf(scopes[s]) :
               (Live(scopes, s) /\ ~Live(scopes', s)) => objs'[o].ref_cnt = objs[o].ref_cnt
      ]_vars

\* C16: the handles of a scope only grow: no operation takes a handle out of
\* the table of a scope that stays alive; after a clear of a handle the
\* scope had, and after a sync that unset a field, the Variable is still in
\* the table, with an absent value.
HandlesOnlyGrow ==
    [][ /\ \A t \in ScopeIds :
               (Live(scopes, t) /\ Live(scopes', t))
                   => HandleSet(scopes[t]) \subseteq HandleSet(scopes'[t])
        /\ (last'.op = "clear" /\ Found(scopes[last'.scope], last'.h))
               => /\ Found(scopes'[last'.scope], last'.h)
                  /\ VariableOf(scopes'[last'.scope], last'.h).value = 0
        /\ last'.op = "sync"
               => \A h \in last'.unset :
                     /\ Found(scopes'[last'.scope], h)
                     /\ VariableOf(scopes'[last'.scope], h).value = 0
      ]_vars

\* C16 witness: a sync has unset a field whose Variable had been cleared
\* and is still in the table.
HandlesOnlyGrowWitness ==
    /\ last.op = "sync"
    /\ \E h \in last.unset :
          /\ intent[last.scope][h].kind = "cleared"
          /\ Found(scopes[last.scope], h)
          /\ VariableOf(scopes[last.scope], h).assigned = FALSE

\* Whether a sync acts on Variable v: it is a whiteout or a cleared
\* Variable (non-floating, absent value) or carries a pending assignment.
Pending(v) == ~v.floating /\ (v.value = 0 \/ v.assigned)

\* C17: make_writable on a write-protected scope gives a clone with, slot by
\* slot, the same handle, floating and assigned flags and the same absence or
\* presence of value; and for every Variable that is a whiteout or pending
\* assignment, a sync of the clone issues the same call (unset, set) as a sync
\* of the original would, leaving the same bytes and type in the Record.
IntentSurvivesClone ==
    [][ (last'.op = "make_writable" /\ scopes[last'.scope].write_protected)
            => \E c \in Slots :
                   /\ refs[c] = last'.scope
                   /\ refs'[c] # refs[c]
                   /\ LET old == scopes[refs[c]]
                          new == scopes'[refs'[c]]
                          a == filterx_scope_sync_to_message(old, objs, msg)
                          b == filterx_scope_sync_to_message(new, objs', msg')
                      IN /\ Len(new.variables) = Len(old.variables)
                         /\ \A i \in 1..Len(old.variables) :
                               LET v == old.variables[i]
                                   w == new.variables[i]
                               IN /\ w.handle = v.handle
                                  /\ w.floating = v.floating
                                  /\ w.assigned = v.assigned
                                  /\ (w.value = 0) = (v.value = 0)
                                  /\ Pending(v) =>
                                        /\ (v.handle \in a.unset) = (v.handle \in b.unset)
                                        /\ (v.handle \in a.set) = (v.handle \in b.set)
                                        /\ v.handle \in a.set \cup a.unset
                                        /\ a.msg[v.handle] = b.msg[v.handle]
      ]_vars

\* C17 witness: make_writable has cloned a scope, still alive, that holds a
\* whiteout and a pending assignment.
IntentSurvivesCloneWitness ==
    /\ last.op = "make_writable"
    /\ \E s \in ScopeIds :
          /\ origin[s] = last.scope
          /\ Live(scopes, s)
          /\ \E v \in VariableSet(scopes[s]) : ~v.floating /\ v.value = 0
          /\ \E v \in VariableSet(scopes[s]) : ~v.floating /\ v.value # 0 /\ v.assigned

\* C18: immediately after a sync every non-floating Variable of the scope
\* has assigned = FALSE and every present non-floating value has its
\* modified_in_place flag cleared; a second sync at that point would issue
\* no Record set and leave the Record as it is, and a sync that does follow
\* at once issues none and leaves it.
SyncIdempotent ==
    /\ [](last.op = "sync" =>
            /\ \A v \in VariableSet(scopes[last.scope]) :
                  ~v.floating => (~v.assigned /\ (v.value # 0 => ~objs[v.value].modified_in_place))
            /\ LET r == filterx_scope_sync_to_message(scopes[last.scope], objs, msg)
               IN r.set = {} /\ r.msg = msg)
    /\ [][ (last.op = "sync" /\ last'.op = "sync" /\ last'.scope = last.scope)
              => (last'.set = {} /\ msg' = msg)
         ]_vars

\* C18 witness: a sync has written a mutable value and unset a field.
SyncIdempotentWitness ==
    /\ last.op = "sync"
    /\ last.unset # {}
    /\ \E v \in VariableSet(scopes[last.scope]) :
          v.handle \in last.set /\ v.value # 0 /\ ~IsReadonly(objs[v.value])

\* C19: with one scope populated through the lazy reference only and a
\* Record only its syncs modify, immediately after a sync the Record has h
\* set exactly if the Variable for h holds a value, for every Variable of the
\* scope; and is_set(h) answers the same before and after the sync, for
\* every handle.
SyncReconciles ==
    /\ [](last.op = "sync" =>
            \A v \in VariableSet(scopes[last.scope]) :
                log_msg_is_value_set(msg, v.handle) <=> v.value # 0)
    /\ [][ last'.op = "sync" =>
              \A h \in Handles :
                  IssetBody(scopes'[last'.scope], msg', h) = IssetBody(scopes[last'.scope], msg, h)
         ]_vars

\* C19 witness: a sync has set one field and unset another.
SyncReconcilesWitness ==
    /\ last.op = "sync"
    /\ last.set # {}
    /\ last.unset # {}
    /\ \E h \in last.unset : ~log_msg_is_value_set(msg, h)

\* The owning references to object o: one per Variable slot holding it, one
\* per weak_refs entry, one for the reference the expression holds.
Owners(SS, o) ==
    LET slots == UNION {{<<s, i>> : i \in {j \in 1..Len(SS[s].variables) :
                                              SS[s].variables[j].value = o}} : s \in ScopeIds}
        weak == UNION {{<<s, i>> : i \in {j \in 1..Len(SS[s].weak_refs) :
                                             SS[s].weak_refs[j] = o}} : s \in ScopeIds}
    IN Cardinality(slots) + Cardinality(weak) + (IF held.obj = o THEN 1 ELSE 0)

\* C20: in every state the reference count of every value is the number of
\* its owners, one per Variable holding it (plus what weak_refs and the
\* caller hold); a read that returns a value gives the caller one reference
\* more; a write or set_value releases the replaced value once and leaves the
\* caller nothing to account for; a scope that is freed releases what it held
\* exactly once.
RefCountsBalanced ==
    /\ [](\A o \in ObjIds : objs[o].ref_cnt = Owners(scopes, o))
    /\ [][ /\ (last'.op = "read" /\ last'.ret # 0)
               => objs'[last'.ret].ref_cnt = objs[last'.ret].ref_cnt + 1
                      + (IF Found(scopes[last'.scope], last'.h) THEN 0 ELSE 1)
           /\ (last'.op \in {"write", "update_repr", "clear"} /\ Found(scopes[last'.scope], last'.h))
               => LET old == VariableOf(scopes[last'.scope], last'.h).value
                  IN (old # 0 /\ VariableOf(scopes'[last'.scope], last'.h).value # old)
                        => (IF objs[old].ref_cnt = 1 THEN objs'[old] = NoObj
                            ELSE objs'[old].ref_cnt = objs[old].ref_cnt - 1)
         ]_vars

\* C20 witness: the last reference to a scope was dropped while the
\* expression held a value read from it; only the expression's reference is left.
RefCountsBalancedWitness ==
    /\ last.op = "unref"
    /\ ~Live(scopes, last.scope)
    /\ held.obj # 0
    /\ held.from = last.scope
    /\ objs[held.obj].ref_cnt = 1
\* C14: with every holder racing make_writable on one write-protected
\* scope, under any interleaving: the shared scope is alive for as long as a
\* thread is cloning from it or has not yet released its reference; it is
\* freed at most once, and only when every thread has released; and when all
\* are done it has been freed once and each holder has a scope of its own,
\* alive, not protected, referenced once and value-equal to the shared scope.
RacingMakeWritableSafe ==
    /\ \A c \in Slots : pc[c] \in {"new", "copy", "unref"} => Live(scopes, refs[c])
    /\ race.freed <= 1
    /\ race.freed = 1 => \A c \in Slots : pc[c] \in {"store", "done"}
    /\ (\A c \in Slots : pc[c] = "done") =>
          /\ race.freed = 1
          /\ \A c \in Slots :
                /\ Live(scopes, refs[c])
                /\ scopes[refs[c]].ref_cnt = 1
                /\ ~scopes[refs[c]].write_protected
                /\ Content(scopes, objs, refs[c]) = race.content
                /\ \A d \in Slots \ {c} :
                      /\ refs[d] # refs[c]
                      /\ \A o \in ValuesOf(scopes[refs[c]]) \cap ValuesOf(scopes[refs[d]]) :
                            IsReadonly(objs[o])

\* C14 witness: one thread has released its reference to the shared scope
\* while another is still in the middle of copying a mutable value's Variable
\* from it.
RacingMakeWritableWitness ==
    \E c, d \in Slots :
        /\ pc[c] = "copy"
        /\ local[c].i <= Len(scopes[refs[c]].variables)
        /\ ~IsReadonly(ValueView(objs, scopes[refs[c]].variables[local[c].i].value))
        /\ scopes[refs[c]].variables[local[c].i].value # 0
        /\ pc[d] \in {"store", "done"}
\* C15: stats_reset_counters owns the registry lock from before the first
\* counter is visited until after the last one is zero; while it does, no
\* other thread is inside a registration or an iteration (and an iterating
\* thread never sees the counters change under it); every counter visited so
\* far that was registered when the lock was taken is zero, and all of them
\* are when the lock is released.
StatsResetAtomic ==
    /\ \A t \in Threads : InCritical(t) => stats.lock = t
    /\ pc[Resetter] \in {"foreach", "unlock"} => \A t \in Threads \ {Resetter} : ~InCritical(t)
    /\ pc[Resetter] = "foreach" =>
          \A k \in CounterIds :
              (k < local[Resetter].i /\ local[Resetter].seen[k]) => stats.counters[k].value = 0
    /\ pc[Resetter] \in {"unlock", "done"} =>
          \A k \in CounterIds : local[Resetter].seen[k] => stats.counters[k] = Counter(TRUE, 0)
    /\ \A t \in Threads \ {Resetter} :
          pc[t] = "iterate" => \A k \in 1..Len(local[t].seen) : local[t].seen[k] = stats.counters[k]

\* C15 witness: the reset is in the middle of its iteration, one counter
\* set to zero and a later one not yet, while another thread waits for the
\* lock.
StatsResetWitness ==
    /\ pc[Resetter] = "foreach"
    /\ local[Resetter].i > 1
    /\ local[Resetter].seen[1]
    /\ \E k \in CounterIds : k >= local[Resetter].i /\ stats.counters[k].value > 0
    /\ \E t \in Threads \ {Resetter} : pc[t] = "idle"

====
